---- MODULE Spec2Model ----
(***************************************************************************)
(* Model of the GVL contention simulator, simulateThreads, of the Puma     *)
(* threads visualisation (execution-time engine with FIFO wait tracking).  *)
(* One call of simulateThreads is one behaviour: the input array is chosen *)
(* in Init, the validation and the construction of the thread records are  *)
(* the first step, every iteration of the while loop is one Tick step, and *)
(* the metrics computation is the last step.                               *)
(*                                                                         *)
(* JavaScript arrays are 0-based: threads, timelines and state are         *)
(* functions on 0..N-1.  The phases of a profile and the segments of a     *)
(* timeline are TLA+ sequences (1-based), so phase number k of the source  *)
(* is phases[k + 1] here.                                                  *)
(***************************************************************************)
EXTENDS Integers, Sequences, FiniteSets, TLC

\* ---------------------------------------------------------------- bounds
\* every mix of keys is explored up to MaxThreads threads
MaxThreads == 3
\* inputs with at most one 'heavy-io' thread are explored up to MaxWide threads
MaxWide == 9
\* arrays with elements that are not strings are explored up to MaxMixed
MaxMixed == 2
\* cap on the number of loop iterations explored in one run
MaxTicks == 1000
\* calls of simulateThreads made one after the other with the same argument
MaxCalls == 2
\* the user changes the first MaxChanged dropdowns of the page only
MaxChanged == 2

\* ------------------------------------------------------------- constants
\* JavaScript null (gvlHolder, waitingSince, oldestWaiter)
NULL == -1

\* JavaScript Infinity, the initial oldestWaitTime
Infinity == 1000000

\* value of state[i] when thread i was skipped by the recording loop
NONE == "none"

REQUEST_PROFILES ==
    ("low-io" :> [name |-> "Low IO (3 small DB queries)",
                  phases |-> << [type |-> "cpu", duration |-> 20],
                                [type |-> "io",  duration |-> 10],
                                [type |-> "cpu", duration |-> 20],
                                [type |-> "io",  duration |-> 10],
                                [type |-> "cpu", duration |-> 20],
                                [type |-> "io",  duration |-> 10],
                                [type |-> "cpu", duration |-> 30] >>])
    @@
    ("heavy-io" :> [name |-> "Heavy IO (LLM API call)",
                    phases |-> << [type |-> "cpu", duration |-> 10],
                                  [type |-> "io",  duration |-> 500],
                                  [type |-> "cpu", duration |-> 50] >>])

StateType == [CPU |-> "cpu", IO |-> "io", BLOCKED |-> "blocked", IDLE |-> "idle"]

\* ------------------------------------------------------ JavaScript values
JsString(s) == [type |-> "string", value |-> s]

JsNumber(n) == [type |-> "number", value |-> n]

JsArray(elements) == [type |-> "array", value |-> elements]

Undefined == [type |-> "undefined"]

\* the array of the strings of a sequence of keys
StringArray(keys) == JsArray([k \in 1..Len(keys) |-> JsString(keys[k])])

Digits == <<"0", "1", "2", "3", "4", "5", "6", "7", "8", "9">>

\* String(n) of an integer
RECURSIVE IntToString(_)
IntToString(n) ==
    IF n < 0 THEN "-" \o IntToString(0 - n)
    ELSE IF n < 10 THEN Digits[n + 1]
    ELSE IntToString(n \div 10) \o Digits[(n % 10) + 1]

\* String(v): a string is itself, a number its decimal notation, an array
\* the String of its elements joined by ","
RECURSIVE JsToString(_)
RECURSIVE JoinFrom(_, _, _)
JoinFrom(elements, k, separator) ==
    IF k > Len(elements) THEN ""
    ELSE IF k = Len(elements) THEN JsToString(elements[k])
    ELSE JsToString(elements[k]) \o separator
             \o JoinFrom(elements, k + 1, separator)

JsToString(v) ==
    IF v.type = "string" THEN v.value
    ELSE IF v.type = "number" THEN IntToString(v.value)
    ELSE IF v.type = "array" THEN JoinFrom(v.value, 1, ",")
    ELSE "undefined"

\* the property key a value is converted to in REQUEST_PROFILES[key]
ToPropertyKey(v) == JsToString(v)

\* properties every object literal inherits from Object.prototype: functions,
\* which have a name and no phases
InheritedProperties ==
    ("constructor" :> [name |-> "Object"]) @@
    ("toString" :> [name |-> "toString"])

\* REQUEST_PROFILES[key]: own property, inherited property or undefined
GetProfile(key) ==
    LET k == ToPropertyKey(key)
    IN IF k \in DOMAIN REQUEST_PROFILES THEN REQUEST_PROFILES[k]
       ELSE IF k \in DOMAIN InheritedProperties THEN InheritedProperties[k]
       ELSE Undefined

\* Object.keys(REQUEST_PROFILES), in insertion order
ProfileKeys == <<"low-io", "heavy-io">>

\* --------------------------------------------------------------- inputs
\* the strings a caller passes: the two catalog keys, an unknown key and two
\* names of Object.prototype
Keys == {"low-io", "heavy-io", "bogus", "constructor", "toString"}

\* the array elements a caller passes: strings, a number and a nested array
Elements ==
    {JsString(k) : k \in Keys}
        \cup {JsNumber(42), StringArray(<<"low-io">>)}

SeqsUpTo(S, n) == UNION { [1..k -> S] : k \in 0..n }

WideInputs ==
    { [j \in 1..k |-> IF j = h THEN "heavy-io" ELSE "low-io"] :
          k \in 1..MaxWide, h \in 0..MaxWide }

\* arguments that are not arrays
NonArrays == {Undefined, JsString("low-io"), JsNumber(3)}

Inputs ==
    {StringArray(keys) : keys \in SeqsUpTo(Keys, MaxThreads)}
        \cup {JsArray(elements) : elements \in SeqsUpTo(Elements, MaxMixed)}
        \cup {StringArray(keys) : keys \in WideInputs}
        \cup NonArrays

VARIABLES
    pc,             \* "idle" (page not loaded), "call", "loop", "done",
                    \* "error": position in simulateThreads; "docsCall",
                    \* "docsLoop", "docsDone", "docsError": position in the
                    \* simulateThreads of src/docs/simulation.js
    threadConfigs,  \* the argument
    threads,        \* thread records
    timelines,      \* per-thread list of segments
    gvlHolder,      \* index of the thread holding the GVL, or NULL
    currentTime,    \* tick counter
    state,          \* classification of each thread in the last tick
    result,         \* returned value
    error,          \* thrown error
    calls,          \* number of calls of simulateThreads made so far
    firstOutcome,   \* what the first call returned or threw
    threadCountInput,   \* value of the thread-count input of the page
    threadSelects       \* value of each dropdown the page displays

vars == <<pc, threadConfigs, threads, timelines, gvlHolder, currentTime,
          state, result, error, calls, firstOutcome, threadCountInput,
          threadSelects>>

\* what a call of simulateThreads neither reads nor writes
outsideVars == <<calls, firstOutcome, threadCountInput, threadSelects>>

\* ------------------------------------------------------------ helpers
RECURSIVE SumDuration(_)
SumDuration(timeline) ==
    IF timeline = <<>> THEN 0
    ELSE Head(timeline).duration + SumDuration(Tail(timeline))

FilterState(timeline, s) == SelectSeq(timeline, LAMBDA seg : seg.state = s)

CurrentPhase(thread) == thread.profile.phases[thread.currentPhaseIndex + 1]

\* the filter test !REQUEST_PROFILES[key] fails: the looked up value is truthy
IsValidKey(key) == GetProfile(key) # Undefined

InvalidProfiles(configs) == SelectSeq(configs, LAMBDA key : ~IsValidKey(key))

\* the profile object has a phases array
HasPhases(thread) == "phases" \in DOMAIN thread.profile

NewThread(profileKey) ==
    [profile |-> GetProfile(profileKey),
     currentPhaseIndex |-> 0,
     phaseExecutedTime |-> 0,
     finished |-> FALSE,
     waitingSince |-> NULL]

\* variant: the lock is taken from its holder at the start of every tick
ReleaseEveryTick(th, g) == NULL

\* variant: the holder is released only when it is finished
ReleaseOnlyFinished(th, g) ==
    IF g # NULL /\ th[g].finished THEN NULL ELSE g

\* ------------------------------------------------------- the tick steps
\* variant: the finished holder is not released
ReleaseOnlyOnIo(th, g) ==
    IF g # NULL /\ ~th[g].finished /\ CurrentPhase(th[g]).type = "io"
    THEN NULL
    ELSE g

\* Release GVL if holder is now doing IO or finished
Release(th, g) ==
    IF g # NULL
    THEN IF th[g].finished THEN NULL
         ELSE IF CurrentPhase(th[g]).type = "io" THEN NULL ELSE g
    ELSE g

\* variant: a waiter that has waited as long as the oldest one replaces it
IsOlderOrEqual(waitingSince, oldestWaitTime) == waitingSince <= oldestWaitTime

\* the comparison that selects the oldest waiter
IsOlder(waitingSince, oldestWaitTime) == waitingSince < oldestWaitTime

\* the thread is unfinished and on a CPU phase
WantsGvl(thread) == ~thread.finished /\ CurrentPhase(thread).type = "cpu"

\* variant: the scan stamps every thread that has no stamp, whatever its phase
StampWaitersAll(th, t) ==
    [i \in DOMAIN th |->
        IF th[i].waitingSince = NULL
        THEN [th[i] EXCEPT !.waitingSince = t]
        ELSE th[i]]

\* Record when thread started waiting if not already tracked (the scan
\* stamps every thread that wants the GVL, whoever is selected)
StampWaiters(th, t) ==
    [i \in DOMAIN th |->
        IF WantsGvl(th[i]) /\ th[i].waitingSince = NULL
        THEN [th[i] EXCEPT !.waitingSince = t]
        ELSE th[i]]

\* the for loop over the stamped threads, from index i on: the index of the
\* thread that has been waiting the longest
RECURSIVE OldestWaiter(_, _, _, _)
OldestWaiter(i, th, oldestWaiter, oldestWaitTime) ==
    IF i >= Cardinality(DOMAIN th) THEN oldestWaiter
    ELSE IF WantsGvl(th[i]) /\ IsOlder(th[i].waitingSince, oldestWaitTime)
         THEN OldestWaiter(i + 1, th, i, th[i].waitingSince)
         ELSE OldestWaiter(i + 1, th, oldestWaiter, oldestWaitTime)

\* variant: the selected thread keeps its waiting stamp
AcquireKeepStamp(th, g, t) ==
    IF g = NULL
    THEN LET stamped == StampWaiters(th, t)
             oldest == OldestWaiter(0, stamped, NULL, Infinity)
         IN [threads |-> stamped, gvlHolder |-> oldest]
    ELSE [threads |-> th, gvlHolder |-> g]

\* variant: oldestWaitTime starts at the current tick instead of Infinity, so
\* a thread must already have waited to be selected
AcquireAfterWait(th, g, t) ==
    IF g = NULL
    THEN LET stamped == StampWaiters(th, t)
             oldest == OldestWaiter(0, stamped, NULL, t)
         IN IF oldest # NULL
            THEN [threads |-> [stamped EXCEPT ![oldest].waitingSince = NULL],
                  gvlHolder |-> oldest]
            ELSE [threads |-> stamped, gvlHolder |-> NULL]
    ELSE [threads |-> th, gvlHolder |-> g]

\* Assign GVL if free and threads need it (FIFO based on wait time)
Acquire(th, g, t) ==
    IF g = NULL
    THEN LET stamped == StampWaiters(th, t)
             oldest == OldestWaiter(0, stamped, NULL, Infinity)
         IN IF oldest # NULL
            THEN [threads |-> [stamped EXCEPT ![oldest].waitingSince = NULL],
                  gvlHolder |-> oldest]
            ELSE [threads |-> stamped, gvlHolder |-> NULL]
    ELSE [threads |-> th, gvlHolder |-> g]

\* variant: a thread on an IO phase waits while another thread holds the GVL
ClassifyIoUnderLock(thread, idx, g) ==
    IF CurrentPhase(thread).type = "io"
    THEN IF g = NULL \/ g = idx THEN StateType.IO ELSE StateType.BLOCKED
    ELSE IF g = idx THEN StateType.CPU ELSE StateType.BLOCKED

\* variant: the holder is compared with the 1-based thread number
ClassifyOffByOne(thread, idx, g) ==
    IF CurrentPhase(thread).type = "io" THEN StateType.IO
    ELSE IF g = idx + 1 THEN StateType.CPU ELSE StateType.BLOCKED

\* variant: the holder test only asks whether the GVL is held
ClassifyAnyHolder(thread, idx, g) ==
    IF CurrentPhase(thread).type = "io" THEN StateType.IO
    ELSE IF g # NULL THEN StateType.CPU ELSE StateType.BLOCKED

\* Determine current state of an unfinished thread
Classify(thread, idx, g) ==
    IF CurrentPhase(thread).type = "io" THEN StateType.IO
    ELSE IF g = idx THEN StateType.CPU ELSE StateType.BLOCKED

\* variant: wall-clock progress, a blocked thread advances too
CanExecuteAlways(s) == TRUE

\* whether the thread can execute in the state it was classified in
CanExecute(s) == s # StateType.BLOCKED

\* variant: startTime is the number of earlier segments
RecordStateCountStart(timeline, s) ==
    IF timeline # <<>> /\ timeline[Len(timeline)].state = s
    THEN [timeline EXCEPT ![Len(timeline)].duration = @ + 1]
    ELSE Append(timeline, [state |-> s,
                           startTime |-> Len(timeline),
                           duration |-> 1])

\* variant: every tick pushes a segment of its own
RecordStateAlwaysPush(timeline, s) ==
    Append(timeline, [state |-> s,
                      startTime |-> SumDuration(timeline),
                      duration |-> 1])

\* variant: a new segment starts with duration 0
RecordStateZeroStart(timeline, s) ==
    IF timeline # <<>> /\ timeline[Len(timeline)].state = s
    THEN [timeline EXCEPT ![Len(timeline)].duration = @ + 1]
    ELSE Append(timeline, [state |-> s,
                           startTime |-> SumDuration(timeline),
                           duration |-> 0])

\* variant: an unchanged state does not extend the last segment
RecordStateNoExtend(timeline, s) ==
    IF timeline # <<>> /\ timeline[Len(timeline)].state = s
    THEN timeline
    ELSE Append(timeline, [state |-> s,
                           startTime |-> SumDuration(timeline),
                           duration |-> 1])

\* Record state in timeline
RecordState(timeline, s) ==
    IF timeline # <<>> /\ timeline[Len(timeline)].state = s
    THEN [timeline EXCEPT ![Len(timeline)].duration = @ + 1]
    ELSE Append(timeline, [state |-> s,
                           startTime |-> SumDuration(timeline),
                           duration |-> 1])

\* variant: the phase is tested for completion before the tick is counted
AdvancePhaseCheckFirst(thread) ==
    IF thread.phaseExecutedTime >= CurrentPhase(thread).duration
    THEN [thread EXCEPT
             !.currentPhaseIndex = @ + 1,
             !.phaseExecutedTime = 0,
             !.finished = (thread.currentPhaseIndex + 1
                              >= Len(thread.profile.phases))]
    ELSE [thread EXCEPT !.phaseExecutedTime = @ + 1]

\* variant: the phase is complete one tick before its duration is reached
AdvancePhaseEarly(thread) ==
    LET executed == thread.phaseExecutedTime + 1
    IN IF executed >= CurrentPhase(thread).duration - 1
       THEN [thread EXCEPT
                !.currentPhaseIndex = @ + 1,
                !.phaseExecutedTime = 0,
                !.finished = (thread.currentPhaseIndex + 1
                                 >= Len(thread.profile.phases))]
       ELSE [thread EXCEPT !.phaseExecutedTime = executed]

\* variant: phaseExecutedTime is not reset when the next phase starts
AdvancePhaseNoReset(thread) ==
    LET executed == thread.phaseExecutedTime + 1
    IN IF executed >= CurrentPhase(thread).duration
       THEN [thread EXCEPT
                !.currentPhaseIndex = @ + 1,
                !.phaseExecutedTime = executed,
                !.finished = (thread.currentPhaseIndex + 1
                                 >= Len(thread.profile.phases))]
       ELSE [thread EXCEPT !.phaseExecutedTime = executed]

\* variant: the phase is complete only after its duration is exceeded
AdvancePhaseOffByOne(thread) ==
    LET executed == thread.phaseExecutedTime + 1
    IN IF executed > CurrentPhase(thread).duration
       THEN [thread EXCEPT
                !.currentPhaseIndex = @ + 1,
                !.phaseExecutedTime = 0,
                !.finished = (thread.currentPhaseIndex + 1
                                 >= Len(thread.profile.phases))]
       ELSE [thread EXCEPT !.phaseExecutedTime = executed]

\* Advance execution time of a thread that can execute
AdvancePhase(thread) ==
    LET executed == thread.phaseExecutedTime + 1
    IN IF executed >= CurrentPhase(thread).duration
       THEN [thread EXCEPT
                !.currentPhaseIndex = @ + 1,
                !.phaseExecutedTime = 0,
                !.finished = (thread.currentPhaseIndex + 1
                                 >= Len(thread.profile.phases))]
       ELSE [thread EXCEPT !.phaseExecutedTime = executed]

\* variant: canExecute is set whenever the GVL is held, by whatever thread
StepThreadAnyHolder(thread, idx, g) ==
    LET s == Classify(thread, idx, g)
        t1 == IF s = StateType.IO THEN [thread EXCEPT !.waitingSince = NULL]
              ELSE thread
    IN IF CanExecute(s) \/ g # NULL THEN AdvancePhase(t1) ELSE t1

\* variant: a BLOCKED thread advances as well (wall-clock phase progress)
StepThreadWallClock(thread, idx, g) ==
    LET s == Classify(thread, idx, g)
        t1 == IF s = StateType.IO THEN [thread EXCEPT !.waitingSince = NULL]
              ELSE thread
    IN AdvancePhase(t1)

\* body of the recording forEach for one unfinished thread
StepThread(thread, idx, g) ==
    LET s == Classify(thread, idx, g)
        t1 == IF s = StateType.IO THEN [thread EXCEPT !.waitingSince = NULL]
              ELSE thread
    IN IF CanExecute(s) THEN AdvancePhase(t1) ELSE t1

\* --------------------------------------------------------------- metrics
\* variant: total counts the blocked and cpu ticks only
PerThreadMetricsNoIo(timeline, idx) ==
    LET blocked == SumDuration(FilterState(timeline, StateType.BLOCKED))
        cpu == SumDuration(FilterState(timeline, StateType.CPU))
        io == SumDuration(FilterState(timeline, StateType.IO))
    IN [threadId |-> idx, blocked |-> blocked, cpu |-> cpu, io |-> io,
        active |-> cpu + io, total |-> blocked + cpu]

PerThreadMetrics(timeline, idx) ==
    LET blocked == SumDuration(FilterState(timeline, StateType.BLOCKED))
        cpu == SumDuration(FilterState(timeline, StateType.CPU))
        io == SumDuration(FilterState(timeline, StateType.IO))
        total == SumDuration(timeline)
    IN [threadId |-> idx, blocked |-> blocked, cpu |-> cpu, io |-> io,
        active |-> cpu + io, total |-> total]

RECURSIVE SumOver(_, _, _)
SumOver(metrics, field, i) ==
    IF i >= Cardinality(DOMAIN metrics) THEN 0
    ELSE metrics[i][field] + SumOver(metrics, field, i + 1)

\* percentBlocked is a JavaScript double: kept exact as num / den
PercentBlocked(totalBlocked, totalTime) ==
    IF totalTime > 0 THEN [num |-> totalBlocked * 100, den |-> totalTime]
    ELSE [num |-> 0, den |-> 1]

\* variant: totalActive sums the cpu ticks only, totalTime sums the totals
AggregateMetricsCpuOnly(perThread) ==
    LET totalBlocked == SumOver(perThread, "blocked", 0)
        totalActive == SumOver(perThread, "cpu", 0)
        totalTime == SumOver(perThread, "total", 0)
    IN [totalBlocked |-> totalBlocked,
        totalActive |-> totalActive,
        totalTime |-> totalTime,
        percentBlocked |-> PercentBlocked(totalBlocked, totalTime)]

AggregateMetrics(perThread) ==
    LET totalBlocked == SumOver(perThread, "blocked", 0)
        totalActive == SumOver(perThread, "active", 0)
        totalTime == totalBlocked + totalActive
    IN [totalBlocked |-> totalBlocked,
        totalActive |-> totalActive,
        totalTime |-> totalTime,
        percentBlocked |-> PercentBlocked(totalBlocked, totalTime)]

EmptyResult ==
    [timelines |-> <<>>,
     metrics |-> [perThread |-> <<>>,
                  aggregate |-> [totalBlocked |-> 0, totalActive |-> 0,
                                 percentBlocked |-> [num |-> 0, den |-> 1]]]]

NoResult == [timelines |-> <<>>]

\* ---------------------------------------------------------------- errors
NoError == [kind |-> "none"]

NotArrayError ==
    [kind |-> "TypeError", message |-> "threadConfigs must be an array"]

\* the Error of the profile validation: its message gives the joined invalid
\* keys and the joined keys of REQUEST_PROFILES
InvalidProfileError(invalidProfiles) ==
    [kind |-> "Error",
     message |-> [text |-> "Invalid profile key(s)",
                  invalid |-> JoinFrom(invalidProfiles, 1, ", "),
                  valid |-> JoinFrom(StringArray(ProfileKeys).value, 1, ", ")]]

\* reading phases[...] of a profile object that has no phases
UndefinedPhasesError ==
    [kind |-> "TypeError",
     message |-> "Cannot read properties of undefined"]

\* ------------------------------------------------------------------ page
\* the characters of the value attribute of the thread-count input
InitialValue == <<"3">>

\* what the user types into the thread-count input: the value of the input
\* after the event, a valid floating-point number or the empty string
TypedValues ==
    {<<>>, <<"0">>, <<"1">>, <<"2">>, <<"2", ".", "5">>, <<"1", "1">>,
     <<"-", "3">>}

\* no call has returned yet
NoOutcome == [result |-> NoResult, error |-> NoError]

\* ---------------------------------------------------------------- actions
Init ==
    /\ pc = "call"
    /\ threadConfigs \in Inputs
    /\ threads = <<>>
    /\ timelines = <<>>
    /\ gvlHolder = NULL
    /\ currentTime = 0
    /\ state = <<>>
    /\ result = NoResult
    /\ error = NoError
    /\ calls = 1
    /\ firstOutcome = NoOutcome
    /\ threadCountInput = InitialValue
    /\ threadSelects = <<>>

\* the argument is an array
IsArray(v) == v.type = "array"

\* !Array.isArray(threadConfigs): a TypeError is thrown
ThrowNotArray ==
    /\ pc = "call"
    /\ ~IsArray(threadConfigs)
    /\ error' = NotArrayError
    /\ pc' = "error"
    /\ UNCHANGED <<threadConfigs, threads, timelines, gvlHolder, currentTime,
                   state, result>>
    /\ UNCHANGED outsideVars

\* threadConfigs.length === 0: the empty result is returned
ReturnEmpty ==
    /\ pc = "call"
    /\ IsArray(threadConfigs)
    /\ Len(threadConfigs.value) = 0
    /\ result' = EmptyResult
    /\ pc' = "done"
    /\ UNCHANGED <<threadConfigs, threads, timelines, gvlHolder, currentTime,
                   state, error>>
    /\ UNCHANGED outsideVars

\* some key is not in REQUEST_PROFILES: an Error is thrown
ThrowInvalidProfile ==
    /\ pc = "call"
    /\ IsArray(threadConfigs)
    /\ Len(threadConfigs.value) > 0
    /\ Len(InvalidProfiles(threadConfigs.value)) > 0
    /\ error' = InvalidProfileError(InvalidProfiles(threadConfigs.value))
    /\ pc' = "error"
    /\ UNCHANGED <<threadConfigs, threads, timelines, gvlHolder, currentTime,
                   state, result>>
    /\ UNCHANGED outsideVars

\* variant: the lock holder and the tick counter live outside the call and
\* are initialised once
ConstructKeepingGlobals ==
    /\ pc = "call"
    /\ IsArray(threadConfigs)
    /\ Len(threadConfigs.value) > 0
    /\ Len(InvalidProfiles(threadConfigs.value)) = 0
    /\ threads' = [i \in 0..(Len(threadConfigs.value) - 1) |->
                      NewThread(threadConfigs.value[i + 1])]
    /\ timelines' = [i \in 0..(Len(threadConfigs.value) - 1) |-> <<>>]
    /\ state' = [i \in 0..(Len(threadConfigs.value) - 1) |-> NONE]
    /\ pc' = "loop"
    /\ UNCHANGED <<threadConfigs, result, error, gvlHolder, currentTime>>
    /\ UNCHANGED outsideVars

\* the input is valid: thread records and empty timelines are created
Construct ==
    /\ pc = "call"
    /\ IsArray(threadConfigs)
    /\ Len(threadConfigs.value) > 0
    /\ Len(InvalidProfiles(threadConfigs.value)) = 0
    /\ threads' = [i \in 0..(Len(threadConfigs.value) - 1) |->
                      NewThread(threadConfigs.value[i + 1])]
    /\ timelines' = [i \in 0..(Len(threadConfigs.value) - 1) |-> <<>>]
    /\ state' = [i \in 0..(Len(threadConfigs.value) - 1) |-> NONE]
    /\ gvlHolder' = NULL
    /\ currentTime' = 0
    /\ pc' = "loop"
    /\ UNCHANGED <<threadConfigs, result, error>>
    /\ UNCHANGED outsideVars

\* index of the first thread whose profile object has no phases
FirstWithoutPhases(th) ==
    CHOOSE i \in DOMAIN th :
        ~HasPhases(th[i]) /\ \A j \in DOMAIN th : j < i => HasPhases(th[j])

\* an iteration of the while loop reads phases[currentPhaseIndex] of a profile
\* object without phases: the scan for the oldest waiter throws a TypeError
\* at the first such thread, after it has stamped the threads before it
ThrowUndefinedPhases ==
    /\ pc = "loop"
    /\ ~(\A i \in DOMAIN threads : threads[i].finished)
    /\ ~(\A i \in DOMAIN threads : HasPhases(threads[i]))
    /\ gvlHolder = NULL
    /\ threads' = [i \in DOMAIN threads |->
                      IF i < FirstWithoutPhases(threads)
                      THEN StampWaiters(threads, currentTime)[i]
                      ELSE threads[i]]
    /\ error' = UndefinedPhasesError
    /\ pc' = "error"
    /\ UNCHANGED <<threadConfigs, timelines, gvlHolder, currentTime, state,
                   result>>
    /\ UNCHANGED outsideVars

\* one iteration of the while loop
Tick ==
    /\ pc = "loop"
    /\ ~(\A i \in DOMAIN threads : threads[i].finished)
    /\ \A i \in DOMAIN threads : HasPhases(threads[i])
    /\ currentTime < MaxTicks
    /\ \E acq \in {Acquire(threads, Release(threads, gvlHolder), currentTime)} :
         \E recorded \in {[i \in DOMAIN threads |->
                              IF acq.threads[i].finished THEN NONE
                              ELSE Classify(acq.threads[i], i, acq.gvlHolder)]} :
            /\ gvlHolder' = acq.gvlHolder
            /\ state' = recorded
            /\ timelines' = [i \in DOMAIN threads |->
                                IF acq.threads[i].finished THEN timelines[i]
                                ELSE RecordState(timelines[i], recorded[i])]
            /\ threads' = [i \in DOMAIN threads |->
                              IF acq.threads[i].finished THEN acq.threads[i]
                              ELSE StepThread(acq.threads[i], i, acq.gvlHolder)]
    /\ currentTime' = currentTime + 1
    /\ UNCHANGED <<pc, threadConfigs, result, error>>
    /\ UNCHANGED outsideVars

\* the loop has ended: metrics are derived from the timelines and returned
Finish ==
    /\ pc = "loop"
    /\ \A i \in DOMAIN threads : threads[i].finished
    /\ LET perThread == [i \in DOMAIN timelines |->
                            PerThreadMetrics(timelines[i], i)]
       IN result' = [timelines |-> timelines,
                     metrics |-> [perThread |-> perThread,
                                  aggregate |-> AggregateMetrics(perThread)]]
    /\ pc' = "done"
    /\ UNCHANGED <<threadConfigs, threads, timelines, gvlHolder, currentTime,
                   state, error>>
    /\ UNCHANGED outsideVars

Next ==
    \/ ThrowNotArray
    \/ ReturnEmpty
    \/ ThrowInvalidProfile
    \/ Construct
    \/ ThrowUndefinedPhases
    \/ Tick
    \/ Finish

Spec == Init /\ [][Next]_vars

\* the call is synchronous: the loop runs until it ends
FairSpec == Spec /\ WF_vars(Next)

\* ------------------------------------------------------ two calls in a row
\* the caller calls simulateThreads once more with the same argument; what
\* the previous call left in memory is still there
CallAgain ==
    /\ pc \in {"done", "error"}
    /\ calls < MaxCalls
    /\ calls' = calls + 1
    /\ firstOutcome' = IF calls = 1 THEN [result |-> result, error |-> error]
                       ELSE firstOutcome
    /\ pc' = "call"
    /\ result' = NoResult
    /\ error' = NoError
    /\ UNCHANGED <<threadConfigs, threads, timelines, gvlHolder, currentTime,
                   state, threadCountInput, threadSelects>>

NextTwice == Next \/ CallAgain

SpecTwice == Init /\ [][NextTwice]_vars

\* ------------------------------------------------------------------ page
NaN == [type |-> "NaN"]

IsDigit(c) == \E d \in 1..10 : Digits[d] = c

DigitValue(c) == (CHOOSE d \in 1..10 : Digits[d] = c) - 1

\* the longest run of digits of chars from position k
RECURSIVE DigitRun(_, _, _, _)
DigitRun(chars, k, value, seen) ==
    IF k > Len(chars) \/ ~IsDigit(chars[k]) THEN [seen |-> seen, value |-> value]
    ELSE DigitRun(chars, k + 1, value * 10 + DigitValue(chars[k]), TRUE)

\* parseInt(string): optional sign, then digits up to the first other
\* character; NaN without a digit
ParseInt(chars) ==
    LET negative == Len(chars) > 0 /\ chars[1] = "-"
        run == DigitRun(chars, IF negative THEN 2 ELSE 1, 0, FALSE)
    IN IF ~run.seen THEN NaN
       ELSE JsNumber(IF negative THEN 0 - run.value ELSE run.value)

DefaultThreadCount == 3

\* parseInt(value) || 3: NaN and 0 are falsy
ThreadCountOf(chars) ==
    LET n == ParseInt(chars)
    IN IF n = NaN THEN DefaultThreadCount
       ELSE IF n.value = 0 THEN DefaultThreadCount
       ELSE n.value

\* count >= 1 && count <= 10
InRange(count) == count # NaN /\ count.value >= 1 /\ count.value <= 10

\* generateThreadConfigs(threadCount): the dropdowns are replaced by
\* threadCount new ones, each showing its first option
GenerateThreadConfigs(threadCount) == [i \in 1..threadCount |-> "low-io"]

\* getThreadConfigs(): one key per i < threadCount, 'low-io' where the page
\* has no dropdown i
GetThreadConfigs(value, selects) ==
    [i \in 1..ThreadCountOf(value) |->
        IF i \in DOMAIN selects THEN selects[i] ELSE "low-io"]

\* updateVisualization(): simulateThreads is called with the collected keys
UpdateVisualization(value, selects) ==
    /\ threadConfigs' = StringArray(GetThreadConfigs(value, selects))
    /\ pc' = "call"
    /\ result' = NoResult
    /\ error' = NoError
    /\ UNCHANGED <<threads, timelines, gvlHolder, currentTime, state, calls,
                   firstOutcome>>

InitUI ==
    /\ pc = "idle"
    /\ threadConfigs = Undefined
    /\ threads = <<>>
    /\ timelines = <<>>
    /\ gvlHolder = NULL
    /\ currentTime = 0
    /\ state = <<>>
    /\ result = NoResult
    /\ error = NoError
    /\ calls = 1
    /\ firstOutcome = NoOutcome
    /\ threadCountInput = InitialValue
    /\ threadSelects = <<>>

\* the DOMContentLoaded handler
DOMContentLoaded ==
    /\ pc = "idle"
    /\ threadSelects' = GenerateThreadConfigs(ThreadCountOf(threadCountInput))
    /\ UNCHANGED threadCountInput
    /\ UpdateVisualization(threadCountInput, threadSelects')

\* the 'input' handler of the thread-count input; an event is handled when
\* the previous handler has returned
InputEvent ==
    /\ pc = "done"
    /\ \E value \in TypedValues \ {threadCountInput} :
          /\ threadCountInput' = value
          /\ IF InRange(ParseInt(value))
             THEN /\ threadSelects' =
                         GenerateThreadConfigs(ParseInt(value).value)
                  /\ UpdateVisualization(value, threadSelects')
             ELSE UNCHANGED <<pc, threadConfigs, threads, timelines,
                              gvlHolder, currentTime, state, result, error,
                              calls, firstOutcome, threadSelects>>

\* the 'change' handler of the dropdowns
ChangeEvent ==
    /\ pc = "done"
    /\ \E i \in DOMAIN threadSelects :
          /\ i <= MaxChanged
          /\ \E key \in DOMAIN REQUEST_PROFILES \ {threadSelects[i]} :
                /\ threadSelects' = [threadSelects EXCEPT ![i] = key]
                /\ UNCHANGED threadCountInput
                /\ UpdateVisualization(threadCountInput, threadSelects')

\* the page: events, and the call each handler makes run to its end
NextUI ==
    \/ DOMContentLoaded
    \/ InputEvent
    \/ ChangeEvent
    \/ ReturnEmpty
    \/ Construct
    \/ Tick
    \/ Finish

SpecUI == InitUI /\ [][NextUI]_vars

\* ------------------------------------- wall-clock engine (src/simulation.js)
RECURSIVE TotalDuration(_)
TotalDuration(phases) ==
    IF phases = <<>> THEN 0
    ELSE Head(phases).duration + TotalDuration(Tail(phases))

\* Math.max over the threads of the sum of the phase durations
WallClockMaxDuration(th) ==
    LET totals == {TotalDuration(th[i].profile.phases) : i \in DOMAIN th}
    IN CHOOSE m \in totals : \A n \in totals : n <= m

WallClockNewThread(profileKey) ==
    [profile |-> GetProfile(profileKey),
     currentPhaseIndex |-> 0,
     phaseStartTime |-> 0,
     finished |-> FALSE]

\* variant: the phase is complete once more time than its duration has passed
WallClockAdvanceLate(thread, t) ==
    IF thread.finished THEN thread
    ELSE IF t - thread.phaseStartTime > CurrentPhase(thread).duration
         THEN [thread EXCEPT
                  !.currentPhaseIndex = @ + 1,
                  !.phaseStartTime = t,
                  !.finished = (thread.currentPhaseIndex + 1
                                   >= Len(thread.profile.phases))]
         ELSE thread

\* Check if current phase is complete: by the time passed since it started
WallClockAdvance(thread, t) ==
    IF thread.finished THEN thread
    ELSE IF t - thread.phaseStartTime >= CurrentPhase(thread).duration
         THEN [thread EXCEPT
                  !.currentPhaseIndex = @ + 1,
                  !.phaseStartTime = t,
                  !.finished = (thread.currentPhaseIndex + 1
                                   >= Len(thread.profile.phases))]
         ELSE thread

\* Release GVL if holder is now doing IO or finished
WallClockRelease(th, g) ==
    IF g # NULL
    THEN IF th[g].finished THEN NULL
         ELSE IF CurrentPhase(th[g]).type = "io" THEN NULL ELSE g
    ELSE g

\* Assign GVL if free and threads need it: the first unfinished thread on a
\* CPU phase
WallClockAcquire(th, g) ==
    IF g = NULL
    THEN LET waiting == {i \in DOMAIN th :
                            ~th[i].finished
                                /\ CurrentPhase(th[i]).type = "cpu"}
         IN IF waiting = {} THEN NULL
            ELSE CHOOSE i \in waiting : \A j \in waiting : i <= j
    ELSE g

WallClockClassify(thread, idx, g) ==
    IF CurrentPhase(thread).type = "io" THEN StateType.IO
    ELSE IF g = idx THEN StateType.CPU ELSE StateType.BLOCKED

\* Add or extend timeline segment
WallClockRecordState(timeline, s, t) ==
    IF timeline # <<>> /\ timeline[Len(timeline)].state = s
    THEN [timeline EXCEPT ![Len(timeline)].duration = @ + 1]
    ELSE Append(timeline, [state |-> s, startTime |-> t, duration |-> 1])

WallClockThrowNotArray ==
    /\ pc = "call"
    /\ ~IsArray(threadConfigs)
    /\ error' = NotArrayError
    /\ pc' = "error"
    /\ UNCHANGED <<threadConfigs, threads, timelines, gvlHolder, currentTime,
                   state, result>>
    /\ UNCHANGED outsideVars

\* threadConfigs.length === 0: an empty array is returned
WallClockReturnEmpty ==
    /\ pc = "call"
    /\ IsArray(threadConfigs)
    /\ Len(threadConfigs.value) = 0
    /\ result' = <<>>
    /\ pc' = "done"
    /\ UNCHANGED <<threadConfigs, threads, timelines, gvlHolder, currentTime,
                   state, error>>
    /\ UNCHANGED outsideVars

WallClockThrowInvalidProfile ==
    /\ pc = "call"
    /\ IsArray(threadConfigs)
    /\ Len(threadConfigs.value) > 0
    /\ Len(InvalidProfiles(threadConfigs.value)) > 0
    /\ error' = InvalidProfileError(InvalidProfiles(threadConfigs.value))
    /\ pc' = "error"
    /\ UNCHANGED <<threadConfigs, threads, timelines, gvlHolder, currentTime,
                   state, result>>
    /\ UNCHANGED outsideVars

\* the thread records and timelines the call creates
WallClockThreads ==
    [i \in 0..(Len(threadConfigs.value) - 1) |->
        WallClockNewThread(threadConfigs.value[i + 1])]

\* the input is valid: thread records and empty timelines are created and
\* maxDuration is computed
WallClockConstruct ==
    /\ pc = "call"
    /\ IsArray(threadConfigs)
    /\ Len(threadConfigs.value) > 0
    /\ Len(InvalidProfiles(threadConfigs.value)) = 0
    /\ \A i \in DOMAIN WallClockThreads : HasPhases(WallClockThreads[i])
    /\ threads' = WallClockThreads
    /\ timelines' = [i \in DOMAIN WallClockThreads |-> <<>>]
    /\ state' = [i \in DOMAIN WallClockThreads |-> NONE]
    /\ gvlHolder' = NULL
    /\ currentTime' = 0
    /\ pc' = "loop"
    /\ UNCHANGED <<threadConfigs, result, error>>
    /\ UNCHANGED outsideVars

\* the computation of maxDuration reads phases.reduce of a profile object
\* without phases: a TypeError is thrown after the records were created
WallClockThrowUndefinedPhases ==
    /\ pc = "call"
    /\ IsArray(threadConfigs)
    /\ Len(threadConfigs.value) > 0
    /\ Len(InvalidProfiles(threadConfigs.value)) = 0
    /\ ~(\A i \in DOMAIN WallClockThreads : HasPhases(WallClockThreads[i]))
    /\ threads' = WallClockThreads
    /\ timelines' = [i \in DOMAIN WallClockThreads |-> <<>>]
    /\ state' = [i \in DOMAIN WallClockThreads |-> NONE]
    /\ gvlHolder' = NULL
    /\ currentTime' = 0
    /\ error' = UndefinedPhasesError
    /\ pc' = "error"
    /\ UNCHANGED <<threadConfigs, result>>
    /\ UNCHANGED outsideVars

\* one iteration of while (currentTime <= maxDuration)
WallClockTick ==
    /\ pc = "loop"
    /\ currentTime <= WallClockMaxDuration(threads)
    /\ \E advanced \in {[i \in DOMAIN threads |->
                            WallClockAdvance(threads[i], currentTime)]} :
         \E holder \in {WallClockAcquire(advanced,
                            WallClockRelease(advanced, gvlHolder))} :
            \E recorded \in {[i \in DOMAIN threads |->
                                 IF advanced[i].finished THEN NONE
                                 ELSE WallClockClassify(advanced[i], i,
                                                        holder)]} :
               /\ threads' = advanced
               /\ gvlHolder' = holder
               /\ state' = recorded
               /\ timelines' = [i \in DOMAIN threads |->
                                   IF advanced[i].finished THEN timelines[i]
                                   ELSE WallClockRecordState(timelines[i],
                                            recorded[i], currentTime)]
    /\ currentTime' = currentTime + 1
    /\ UNCHANGED <<pc, threadConfigs, result, error>>
    /\ UNCHANGED outsideVars

\* the loop has ended: the timelines are returned
WallClockReturn ==
    /\ pc = "loop"
    /\ currentTime > WallClockMaxDuration(threads)
    /\ result' = timelines
    /\ pc' = "done"
    /\ UNCHANGED <<threadConfigs, threads, timelines, gvlHolder, currentTime,
                   state, error>>
    /\ UNCHANGED outsideVars

NextWallClock ==
    \/ WallClockThrowNotArray
    \/ WallClockReturnEmpty
    \/ WallClockThrowInvalidProfile
    \/ WallClockConstruct
    \/ WallClockThrowUndefinedPhases
    \/ WallClockTick
    \/ WallClockReturn

SpecWallClock == Init /\ [][NextWallClock]_vars

\* ------------------------------------- the engine of src/docs/simulation.js
\* The docs page has its own copy of the catalog and of simulateThreads, which
\* returns the timelines only. It is called with the argument the first call
\* got, after that call has returned or thrown.
DocsRequestProfiles ==
    ("low-io" :> [name |-> "Low IO (3 small DB queries)",
                  phases |-> << [type |-> "cpu", duration |-> 20],
                                [type |-> "io",  duration |-> 10],
                                [type |-> "cpu", duration |-> 20],
                                [type |-> "io",  duration |-> 10],
                                [type |-> "cpu", duration |-> 20],
                                [type |-> "io",  duration |-> 10],
                                [type |-> "cpu", duration |-> 30] >>])
    @@
    ("heavy-io" :> [name |-> "Heavy IO (LLM API call)",
                    phases |-> << [type |-> "cpu", duration |-> 10],
                                  [type |-> "io",  duration |-> 500],
                                  [type |-> "cpu", duration |-> 50] >>])

DocsStateType ==
    [CPU |-> "cpu", IO |-> "io", BLOCKED |-> "blocked", IDLE |-> "idle"]

\* REQUEST_PROFILES[key] of the docs catalog
DocsGetProfile(key) ==
    LET k == ToPropertyKey(key)
    IN IF k \in DOMAIN DocsRequestProfiles THEN DocsRequestProfiles[k]
       ELSE IF k \in DOMAIN InheritedProperties THEN InheritedProperties[k]
       ELSE Undefined

DocsInvalidProfiles(configs) ==
    SelectSeq(configs, LAMBDA key : DocsGetProfile(key) = Undefined)

DocsNewThread(profileKey) ==
    [profile |-> DocsGetProfile(profileKey),
     currentPhaseIndex |-> 0,
     phaseExecutedTime |-> 0,
     finished |-> FALSE,
     waitingSince |-> NULL]

DocsCurrentPhase(thread) ==
    thread.profile.phases[thread.currentPhaseIndex + 1]

\* Release GVL if holder is now doing IO or finished
DocsRelease(th, g) ==
    IF g = NULL THEN NULL
    ELSE IF th[g].finished \/ DocsCurrentPhase(th[g]).type = "io" THEN NULL
    ELSE g

\* the scan of the threads from index i on: every unfinished thread on a CPU
\* phase without a stamp is stamped with the current time, and the first
\* thread with the smallest stamp becomes the oldest waiter
RECURSIVE DocsScan(_, _, _, _, _)
DocsScan(i, th, t, oldestWaiter, oldestWaitTime) ==
    IF i >= Cardinality(DOMAIN th)
    THEN [threads |-> th, oldestWaiter |-> oldestWaiter]
    ELSE IF ~th[i].finished /\ DocsCurrentPhase(th[i]).type = "cpu"
         THEN LET since == IF th[i].waitingSince = NULL THEN t
                           ELSE th[i].waitingSince
                  stamped == [th EXCEPT ![i].waitingSince = since]
              IN IF since < oldestWaitTime
                 THEN DocsScan(i + 1, stamped, t, i, since)
                 ELSE DocsScan(i + 1, stamped, t, oldestWaiter,
                               oldestWaitTime)
         ELSE DocsScan(i + 1, th, t, oldestWaiter, oldestWaitTime)

\* Assign GVL if free and threads need it (FIFO based on wait time)
DocsAcquire(th, g, t) ==
    IF g # NULL THEN [threads |-> th, gvlHolder |-> g]
    ELSE LET scan == DocsScan(0, th, t, NULL, Infinity)
         IN IF scan.oldestWaiter = NULL
            THEN [threads |-> scan.threads, gvlHolder |-> NULL]
            ELSE [threads |-> [scan.threads EXCEPT
                                  ![scan.oldestWaiter].waitingSince = NULL],
                  gvlHolder |-> scan.oldestWaiter]

\* state and canExecute of an unfinished thread
DocsClassify(thread, idx, g) ==
    IF DocsCurrentPhase(thread).type = "io"
    THEN [state |-> DocsStateType.IO, canExecute |-> TRUE]
    ELSE IF g = idx
         THEN [state |-> DocsStateType.CPU, canExecute |-> TRUE]
         ELSE [state |-> DocsStateType.BLOCKED, canExecute |-> FALSE]

\* variant: every tick starts a new segment
DocsRecordStateAlwaysPush(timeline, s) ==
    Append(timeline, [state |-> s, startTime |-> SumDuration(timeline),
                      duration |-> 1])

\* Record state in timeline
DocsRecordState(timeline, s) ==
    LET n == Len(timeline)
    IN IF n > 0 /\ timeline[n].state = s
       THEN [timeline EXCEPT ![n].duration = timeline[n].duration + 1]
       ELSE Append(timeline, [state |-> s,
                              startTime |-> SumDuration(timeline),
                              duration |-> 1])

\* Advance execution time only if thread can actually execute
DocsAdvance(thread, idx, g) ==
    LET c == DocsClassify(thread, idx, g)
        t1 == IF c.state = DocsStateType.IO
              THEN [thread EXCEPT !.waitingSince = NULL]
              ELSE thread
        executed == t1.phaseExecutedTime + 1
    IN IF ~c.canExecute THEN t1
       ELSE IF executed < DocsCurrentPhase(t1).duration
            THEN [t1 EXCEPT !.phaseExecutedTime = executed]
            ELSE [t1 EXCEPT
                     !.currentPhaseIndex = @ + 1,
                     !.phaseExecutedTime = 0,
                     !.finished = (t1.currentPhaseIndex + 1
                                       >= Len(t1.profile.phases))]

\* the docs version is called with the argument of the first call
CallDocs ==
    /\ pc \in {"done", "error"}
    /\ calls = 1
    /\ calls' = calls + 1
    /\ firstOutcome' = [result |-> result, error |-> error]
    /\ pc' = "docsCall"
    /\ result' = NoResult
    /\ error' = NoError
    /\ UNCHANGED <<threadConfigs, threads, timelines, gvlHolder, currentTime,
                   state, threadCountInput, threadSelects>>

DocsThrowNotArray ==
    /\ pc = "docsCall"
    /\ ~IsArray(threadConfigs)
    /\ error' = NotArrayError
    /\ pc' = "docsError"
    /\ UNCHANGED <<threadConfigs, threads, timelines, gvlHolder, currentTime,
                   state, result>>
    /\ UNCHANGED outsideVars

\* threadConfigs.length === 0: an empty array is returned
DocsReturnEmpty ==
    /\ pc = "docsCall"
    /\ IsArray(threadConfigs)
    /\ Len(threadConfigs.value) = 0
    /\ result' = <<>>
    /\ pc' = "docsDone"
    /\ UNCHANGED <<threadConfigs, threads, timelines, gvlHolder, currentTime,
                   state, error>>
    /\ UNCHANGED outsideVars

DocsThrowInvalidProfile ==
    /\ pc = "docsCall"
    /\ IsArray(threadConfigs)
    /\ Len(threadConfigs.value) > 0
    /\ Len(DocsInvalidProfiles(threadConfigs.value)) > 0
    /\ error' = InvalidProfileError(DocsInvalidProfiles(threadConfigs.value))
    /\ pc' = "docsError"
    /\ UNCHANGED <<threadConfigs, threads, timelines, gvlHolder, currentTime,
                   state, result>>
    /\ UNCHANGED outsideVars

DocsConstruct ==
    /\ pc = "docsCall"
    /\ IsArray(threadConfigs)
    /\ Len(threadConfigs.value) > 0
    /\ Len(DocsInvalidProfiles(threadConfigs.value)) = 0
    /\ threads' = [i \in 0..(Len(threadConfigs.value) - 1) |->
                      DocsNewThread(threadConfigs.value[i + 1])]
    /\ timelines' = [i \in 0..(Len(threadConfigs.value) - 1) |-> <<>>]
    /\ state' = [i \in 0..(Len(threadConfigs.value) - 1) |-> NONE]
    /\ gvlHolder' = NULL
    /\ currentTime' = 0
    /\ pc' = "docsLoop"
    /\ UNCHANGED <<threadConfigs, result, error>>
    /\ UNCHANGED outsideVars

\* the scan reads phases[currentPhaseIndex] of a profile object without
\* phases: a TypeError is thrown at the first such thread, after the threads
\* before it have been stamped
DocsThrowUndefinedPhases ==
    /\ pc = "docsLoop"
    /\ \E i \in DOMAIN threads : ~threads[i].finished
    /\ \E i \in DOMAIN threads : "phases" \notin DOMAIN threads[i].profile
    /\ gvlHolder = NULL
    /\ LET first == CHOOSE i \in DOMAIN threads :
                        /\ "phases" \notin DOMAIN threads[i].profile
                        /\ \A j \in DOMAIN threads :
                               j < i => "phases" \in DOMAIN threads[j].profile
           before == [i \in {j \in DOMAIN threads : j < first} |-> threads[i]]
           scan == DocsScan(0, before, currentTime, NULL, Infinity)
       IN threads' = [i \in DOMAIN threads |->
                         IF i < first THEN scan.threads[i] ELSE threads[i]]
    /\ error' = UndefinedPhasesError
    /\ pc' = "docsError"
    /\ UNCHANGED <<threadConfigs, timelines, gvlHolder, currentTime, state,
                   result>>
    /\ UNCHANGED outsideVars

\* one iteration of the while loop of the docs version
DocsTick ==
    /\ pc = "docsLoop"
    /\ \E i \in DOMAIN threads : ~threads[i].finished
    /\ \A i \in DOMAIN threads : "phases" \in DOMAIN threads[i].profile
    /\ currentTime < MaxTicks
    /\ \E acq \in {DocsAcquire(threads, DocsRelease(threads, gvlHolder),
                               currentTime)} :
         \E recorded \in {[i \in DOMAIN threads |->
                              IF acq.threads[i].finished THEN NONE
                              ELSE DocsClassify(acq.threads[i], i,
                                                acq.gvlHolder).state]} :
            /\ gvlHolder' = acq.gvlHolder
            /\ state' = recorded
            /\ timelines' = [i \in DOMAIN threads |->
                                IF acq.threads[i].finished THEN timelines[i]
                                ELSE DocsRecordState(timelines[i],
                                                     recorded[i])]
            /\ threads' = [i \in DOMAIN threads |->
                              IF acq.threads[i].finished THEN acq.threads[i]
                              ELSE DocsAdvance(acq.threads[i], i,
                                               acq.gvlHolder)]
    /\ currentTime' = currentTime + 1
    /\ UNCHANGED <<pc, threadConfigs, result, error>>
    /\ UNCHANGED outsideVars

\* the loop has ended: the timelines are returned
DocsReturn ==
    /\ pc = "docsLoop"
    /\ \A i \in DOMAIN threads : threads[i].finished
    /\ result' = timelines
    /\ pc' = "docsDone"
    /\ UNCHANGED <<threadConfigs, threads, timelines, gvlHolder, currentTime,
                   state, error>>
    /\ UNCHANGED outsideVars

NextVersions ==
    \/ Next
    \/ CallDocs
    \/ DocsThrowNotArray
    \/ DocsReturnEmpty
    \/ DocsThrowInvalidProfile
    \/ DocsConstruct
    \/ DocsThrowUndefinedPhases
    \/ DocsTick
    \/ DocsReturn

SpecVersions == Init /\ [][NextVersions]_vars

\* ------------------------------------------------------------ properties
\* index of the last thread any explored input can have
MaxIndex == (IF MaxThreads > MaxWide THEN MaxThreads ELSE MaxWide) - 1

\* classification of thread i in the last tick, NONE when there is no thread i
StateOf(i) == IF i \in DOMAIN state THEN state[i] ELSE NONE

LastSegment(timeline) == timeline[Len(timeline)]

\* the call is simulateThreads(keys) for a sequence of strings
CalledWith(keys) == threadConfigs = StringArray(keys)

\* number of elements of the argument array
ThreadCount == Len(threadConfigs.value)

\* the argument is a non-empty array of keys of the catalog
ValidInput ==
    /\ IsArray(threadConfigs)
    /\ ThreadCount > 0
    /\ \A k \in 1..ThreadCount :
           /\ threadConfigs.value[k].type = "string"
           /\ threadConfigs.value[k].value \in DOMAIN REQUEST_PROFILES

\* the keys of a valid input
ConfigKeys == [k \in 1..ThreadCount |-> threadConfigs.value[k].value]

\* a loop iteration is being taken
IsTickStep == pc = "loop" /\ currentTime' = currentTime + 1

\* C1. Exclusivity: at every tick at most one thread is classified
\* EXECUTING ('cpu').
Exclusivity ==
    Cardinality({i \in DOMAIN state : state[i] = StateType.CPU}) <= 1

\* a tick at which one thread executes while another one wants the GVL
ExclusivityWitness ==
    \E i, j \in DOMAIN state :
        state[i] = StateType.CPU /\ state[j] = StateType.BLOCKED

\* thread j was BLOCKED up to the previous tick and is granted the GVL now
GrantedAfterBlocked(j) ==
    /\ state[j] = StateType.CPU
    /\ Len(timelines[j]) >= 2
    /\ LastSegment(timelines[j]).duration = 1
    /\ timelines[j][Len(timelines[j]) - 1].state = StateType.BLOCKED

\* first tick of the BLOCKED run that thread j has just left
BlockedSinceBeforeGrant(j) == timelines[j][Len(timelines[j]) - 1].startTime

\* first tick of the BLOCKED run thread i is in
BlockedSince(i) == LastSegment(timelines[i]).startTime

\* C2. FIFO fairness: of two threads that are both BLOCKED, the one that
\* became BLOCKED at a strictly earlier tick is granted the GVL first, so a
\* thread is never granted the GVL while a thread that became BLOCKED
\* strictly before it is still BLOCKED.
FifoFairness ==
    \A i, j \in DOMAIN state :
        (state[i] = StateType.BLOCKED /\ GrantedAfterBlocked(j))
            => ~(BlockedSince(i) < BlockedSinceBeforeGrant(j))

\* C3. No progress while blocked: a tick in which a thread is classified
\* BLOCKED leaves its phaseExecutedTime, currentPhaseIndex and finished flag
\* unchanged and makes its timeline one tick longer, the tick being BLOCKED.
NoProgressWhileBlocked ==
    [][IsTickStep =>
         \A i \in DOMAIN threads :
             state'[i] = StateType.BLOCKED =>
                 /\ threads'[i].phaseExecutedTime = threads[i].phaseExecutedTime
                 /\ threads'[i].currentPhaseIndex = threads[i].currentPhaseIndex
                 /\ threads'[i].finished = threads[i].finished
                 /\ SumDuration(timelines'[i]) = SumDuration(timelines[i]) + 1
                 /\ LastSegment(timelines'[i]).state = StateType.BLOCKED]_vars

\* a thread that has been BLOCKED for several ticks in a row
NoProgressWitness ==
    \E i \in DOMAIN state :
        /\ state[i] = StateType.BLOCKED
        /\ LastSegment(timelines[i]).duration >= 2
        /\ threads[i].currentPhaseIndex > 0

\* every thread of the run is finished
AllFinished ==
    /\ pc \in {"loop", "done"}
    /\ \A i \in DOMAIN threads : threads[i].finished

\* C4. Termination: for every non-empty list of valid keys the loop ends:
\* a state in which every thread is finished is eventually reached.
Termination == (pc = "call" /\ ValidInput) ~> AllFinished

\* the loop has ended in a run in which some thread had to wait for the GVL
TerminationWitness ==
    /\ AllFinished
    /\ ThreadCount >= 2
    /\ \E i \in DOMAIN timelines :
           \E k \in 1..Len(timelines[i]) :
               timelines[i][k].state = StateType.BLOCKED

\* C5. No starvation: every thread classified BLOCKED at some tick is
\* classified EXECUTING at some later tick.
NoStarvation ==
    \A i \in 0..MaxIndex :
        (StateOf(i) = StateType.BLOCKED) ~> (StateOf(i) = StateType.CPU)

\* a thread executes right after a BLOCKED run of at least 100 ticks
NoStarvationWitness ==
    \E j \in DOMAIN state :
        /\ GrantedAfterBlocked(j)
        /\ timelines[j][Len(timelines[j]) - 1].duration >= 100

RECURSIVE PhaseSum(_)
PhaseSum(phases) ==
    IF phases = <<>> THEN 0
    ELSE Head(phases).duration + PhaseSum(Tail(phases))

\* sum of all phase durations of the profile of one key
Demand(key) == PhaseSum(REQUEST_PROFILES[key].phases)

RECURSIVE TotalDemand(_)
TotalDemand(configs) ==
    IF configs = <<>> THEN 0
    ELSE Demand(Head(configs)) + TotalDemand(Tail(configs))

\* C6. Tick bound: when the loop ends, currentTime is at most the sum of all
\* phase durations of all threads of the input.
TickBound ==
    (AllFinished /\ ValidInput) => currentTime <= TotalDemand(ConfigKeys)

\* a run that ended later than any of its threads would have ended alone
TickBoundWitness ==
    /\ AllFinished
    /\ ValidInput
    /\ \A k \in 1..ThreadCount : currentTime > Demand(ConfigKeys[k])

\* C7. Single thread never blocks: in a run with exactly one thread no
\* segment of its timeline has state BLOCKED.
SingleThreadNeverBlocks ==
    (pc \in {"loop", "done"} /\ ThreadCount = 1) =>
        \A k \in 1..Len(timelines[0]) :
            timelines[0][k].state # StateType.BLOCKED

\* a finished one-thread run that went through CPU and IO phases
SingleThreadWitness ==
    /\ pc = "done"
    /\ ThreadCount = 1
    /\ Len(timelines[0]) >= 3

\* C8. Conservation: the segment durations of a thread add up to the number
\* of ticks elapsed from tick 0 until the tick at which it became finished:
\* the sum equals currentTime while the thread is unfinished and at the end
\* of the tick that finishes it, and its timeline is frozen afterwards.
Conservation ==
    [][\A i \in DOMAIN threads :
          /\ ~threads[i].finished => SumDuration(timelines[i]) = currentTime
          /\ threads[i].finished => timelines'[i] = timelines[i]
          /\ (~threads[i].finished /\ threads'[i].finished) =>
                 SumDuration(timelines'[i]) = currentTime']_vars

\* a thread finished earlier than the run: its timeline is shorter than the
\* ticks simulated so far
ConservationWitness ==
    \E i, j \in DOMAIN threads :
        /\ threads[i].finished
        /\ ~threads[j].finished
        /\ SumDuration(timelines[i]) < currentTime
        /\ \E k \in 1..Len(timelines[i]) :
               timelines[i][k].state = StateType.BLOCKED

\* the states and durations of the segments of a timeline, in order
SegmentRuns(timeline) ==
    [k \in 1..Len(timeline) |-> <<timeline[k].state, timeline[k].duration>>]

\* C9. simulateThreads(['low-io']) returns one timeline whose segments are
\* EXECUTING 20, WAITING_IO 10, EXECUTING 20, WAITING_IO 10, EXECUTING 20,
\* WAITING_IO 10, EXECUTING 30, and no other segment.
LowIoSegments ==
    (pc = "done" /\ CalledWith(<<"low-io">>)) =>
        /\ DOMAIN result.timelines = {0}
        /\ SegmentRuns(result.timelines[0]) =
               << <<"cpu", 20>>, <<"io", 10>>, <<"cpu", 20>>, <<"io", 10>>,
                  <<"cpu", 20>>, <<"io", 10>>, <<"cpu", 30>> >>

\* the call simulateThreads(['low-io']) has returned
LowIoSegmentsWitness ==
    /\ pc = "done"
    /\ CalledWith(<<"low-io">>)
    /\ Len(result.timelines[0]) = 7

\* C10 as stated: for simulateThreads(['low-io']) the thread's metrics are
\* total = 140 and blocked = 0.
LowIoTotal140 ==
    (pc = "done" /\ CalledWith(<<"low-io">>)) =>
        /\ result.metrics.perThread[0].total = 140
        /\ result.metrics.perThread[0].blocked = 0

\* C10 amended: for simulateThreads(['low-io']) the thread's metrics are
\* total = 120 (the sum of the seven phase durations) and blocked = 0.
LowIoTotal120 ==
    (pc = "done" /\ CalledWith(<<"low-io">>)) =>
        /\ result.metrics.perThread[0].total = 120
        /\ result.metrics.perThread[0].blocked = 0

\* the metrics of simulateThreads(['low-io']) have been computed
LowIoMetricsWitness ==
    /\ pc = "done"
    /\ CalledWith(<<"low-io">>)
    /\ result.metrics.perThread[0].threadId = 0
    /\ result.metrics.perThread[0].active = 120

\* C11 as stated: in simulateThreads(['low-io', 'heavy-io']) the total of the
\* 'low-io' thread (thread 0) is at least 140.
LowIoWithHeavyAtLeast140 ==
    (pc = "done" /\ CalledWith(<<"low-io", "heavy-io">>)) =>
        result.metrics.perThread[0].total >= 140

\* C11 amended: in simulateThreads(['low-io', 'heavy-io']) the total of the
\* 'low-io' thread (thread 0) is at least 120, the sum of its phase durations.
LowIoWithHeavyAtLeast120 ==
    (pc = "done" /\ CalledWith(<<"low-io", "heavy-io">>)) =>
        result.metrics.perThread[0].total >= 120

\* simulateThreads(['low-io', 'heavy-io']) has returned and its second thread
\* had to wait for the first one
LowIoWithHeavyWitness ==
    /\ pc = "done"
    /\ CalledWith(<<"low-io", "heavy-io">>)
    /\ result.metrics.perThread[1].blocked > 0

\* the largest total of the per-thread metrics
RECURSIVE MaxTotal(_, _)
MaxTotal(perThread, i) ==
    IF i >= Cardinality(DOMAIN perThread) THEN 0
    ELSE LET rest == MaxTotal(perThread, i + 1)
         IN IF perThread[i].total > rest THEN perThread[i].total ELSE rest

\* C12. Run length: when the loop ends, the number of ticks elapsed equals
\* the maximum over the threads of the thread's total.
RunLength ==
    (pc = "done" /\ ValidInput) =>
        currentTime = MaxTotal(result.metrics.perThread, 0)

\* a finished run whose threads ended at different ticks
RunLengthWitness ==
    /\ pc = "done"
    /\ ValidInput
    /\ \E i, j \in DOMAIN result.metrics.perThread :
           result.metrics.perThread[i].total < result.metrics.perThread[j].total

\* sum of the durations of the phases of one type
RECURSIVE PhaseSumOfType(_, _)
PhaseSumOfType(phases, type) ==
    IF phases = <<>> THEN 0
    ELSE (IF Head(phases).type = type THEN Head(phases).duration ELSE 0)
            + PhaseSumOfType(Tail(phases), type)

\* C13. Work fixed by the profile: in every run every thread's cpu metric is
\* the sum of the CPU-phase durations of its profile and its io metric the
\* sum of its IO-phase durations (low-io 90 and 30, heavy-io 60 and 500).
WorkFixedByProfile ==
    (pc = "done" /\ ValidInput) =>
        \A i \in DOMAIN result.metrics.perThread :
            LET m == result.metrics.perThread[i]
                phases == threads[i].profile.phases
            IN /\ m.cpu = PhaseSumOfType(phases, "cpu")
               /\ m.io = PhaseSumOfType(phases, "io")
               /\ threads[i].profile = REQUEST_PROFILES["low-io"] =>
                      (m.cpu = 90 /\ m.io = 30)
               /\ threads[i].profile = REQUEST_PROFILES["heavy-io"] =>
                      (m.cpu = 60 /\ m.io = 500)

\* a finished run with a low-io and a heavy-io thread that both were blocked
WorkFixedWitness ==
    /\ pc = "done"
    /\ ValidInput
    /\ \E i, j \in DOMAIN result.metrics.perThread :
           /\ threads[i].profile = REQUEST_PROFILES["low-io"]
           /\ threads[j].profile = REQUEST_PROFILES["heavy-io"]
           /\ result.metrics.perThread[i].blocked > 0
           /\ result.metrics.perThread[j].blocked > 0

\* C14. Metric identity: in every run with at least one thread, every thread
\* has blocked + cpu + io = total and active = cpu + io, the aggregate has
\* totalActive + totalBlocked = totalTime and 0 <= totalBlocked <= totalTime,
\* and percentBlocked lies in [0, 100].
MetricIdentity ==
    (pc = "done" /\ ValidInput) =>
        LET agg == result.metrics.aggregate
        IN /\ \A i \in DOMAIN result.metrics.perThread :
                 LET m == result.metrics.perThread[i]
                 IN /\ m.blocked + m.cpu + m.io = m.total
                    /\ m.active = m.cpu + m.io
           /\ agg.totalActive + agg.totalBlocked = agg.totalTime
           /\ 0 <= agg.totalBlocked
           /\ agg.totalBlocked <= agg.totalTime
           /\ agg.percentBlocked.den > 0
           /\ 0 <= agg.percentBlocked.num
           /\ agg.percentBlocked.num <= 100 * agg.percentBlocked.den

\* a finished run with both blocked and active time in the aggregate
MetricIdentityWitness ==
    /\ pc = "done"
    /\ ValidInput
    /\ result.metrics.aggregate.totalBlocked > 0
    /\ result.metrics.aggregate.totalActive > result.metrics.aggregate.totalBlocked

\* ------------------------------------------------------- input validation
\* the call has returned or thrown
Returned == pc \in {"done", "error"}

\* the elements of the argument array that are strings outside the catalog
UnknownStrings ==
    SelectSeq(threadConfigs.value,
              LAMBDA e : e.type = "string"
                             /\ e.value \notin DOMAIN REQUEST_PROFILES)

\* the argument is an array with at least one string outside the catalog
HasUnknownString == IsArray(threadConfigs) /\ Len(UnknownStrings) > 0

\* the elements of the argument array whose key is not a key of the catalog
OffendingKeys ==
    SelectSeq(threadConfigs.value,
              LAMBDA e : ToPropertyKey(e) \notin DOMAIN REQUEST_PROFILES)

\* the argument is not a sequence of strings
NotStringSequence ==
    \/ ~IsArray(threadConfigs)
    \/ ~(\A k \in 1..Len(threadConfigs.value) :
             threadConfigs.value[k].type = "string")

\* C15. Empty input: simulateThreads([]) returns without an error an empty
\* timelines list, an empty per-thread list and an aggregate that has each of
\* totalBlocked, totalActive, totalTime and percentBlocked, all equal to 0.
EmptyInputResult ==
    (Returned /\ CalledWith(<<>>)) =>
        /\ pc = "done"
        /\ error = NoError
        /\ result.timelines = <<>>
        /\ result.metrics.perThread = <<>>
        /\ LET agg == result.metrics.aggregate
           IN /\ {"totalBlocked", "totalActive", "totalTime",
                  "percentBlocked"} \subseteq DOMAIN agg
              /\ agg.totalBlocked = 0
              /\ agg.totalActive = 0
              /\ agg.totalTime = 0
              /\ agg.percentBlocked.num = 0

\* C16. Unknown profile: a call with an array that contains a string outside
\* the catalog fails with the unknown-profile Error, whose message names every
\* offending key and lists the valid keys.
UnknownProfileError ==
    (HasUnknownString /\ pc # "call") =>
        /\ pc = "error"
        /\ error.kind = "Error"
        /\ error.message.text = "Invalid profile key(s)"
        /\ error.message.invalid = JoinFrom(OffendingKeys, 1, ", ")
        /\ error.message.valid = "low-io, heavy-io"

\* C17. No partial execution: in a call with an array that contains a string
\* outside the catalog no thread record, timeline or lock holder is ever
\* created, no tick is simulated and no result is returned.
NoPartialExecution ==
    HasUnknownString =>
        /\ threads = <<>>
        /\ timelines = <<>>
        /\ state = <<>>
        /\ gvlHolder = NULL
        /\ currentTime = 0
        /\ result = NoResult
        /\ pc \in {"call", "error"}

\* C18. Invalid input shape: a call with a value that is not an array, or with
\* an array that has a non-string element, fails with the TypeError
\* 'threadConfigs must be an array'.
InvalidInputShape ==
    (NotStringSequence /\ pc # "call") =>
        /\ pc = "error"
        /\ error = NotArrayError
        /\ error.kind # "Error"

\* C19. Determinism: a call of simulateThreads made after another call with the
\* same argument returns the same result, or throws the same error, as the
\* first call did, whatever the first call left behind.
Determinism ==
    (calls >= 2 /\ Returned) =>
        [result |-> result, error |-> error] = firstOutcome

\* a second call has returned the result of a run in which a thread was blocked
DeterminismWitness ==
    /\ calls = 2
    /\ pc = "done"
    /\ ValidInput
    /\ gvlHolder # NULL
    /\ \E i \in DOMAIN result.metrics.perThread :
           result.metrics.perThread[i].blocked > 0

\* C20. UI thread count: every call of simulateThreads the page makes has
\* between 1 and 10 threads and exactly one thread per dropdown displayed.
UiThreadCount ==
    (pc = "call") =>
        /\ ThreadCount >= 1
        /\ ThreadCount <= 10
        /\ ThreadCount = Len(threadSelects)

\* C21. Waiting-since accuracy: a thread classified BLOCKED at a tick has a
\* non-null waitingSince equal to the first tick of its current BLOCKED run,
\* and the waitingSince of the thread that holds the lock is null.
WaitingSinceAccuracy ==
    \A i \in DOMAIN state :
        /\ state[i] = StateType.BLOCKED =>
               /\ threads[i].waitingSince # NULL
               /\ threads[i].waitingSince = BlockedSince(i)
        /\ (state[i] = StateType.CPU /\ gvlHolder = i) =>
               threads[i].waitingSince = NULL

\* the lock is free for the acquire step of the coming tick: it has no holder,
\* or a holder that is finished or on an IO phase
LockFree ==
    \/ gvlHolder = NULL
    \/ threads[gvlHolder].finished
    \/ CurrentPhase(threads[gvlHolder]).type = "io"

\* the unfinished threads on a CPU phase
Waiters ==
    {i \in DOMAIN threads :
        ~threads[i].finished /\ CurrentPhase(threads[i]).type = "cpu"}

\* the waitingSince a waiter competes with: its stamp, or this tick
WaitOf(i) ==
    IF threads[i].waitingSince = NULL THEN currentTime
    ELSE threads[i].waitingSince

\* C22. Tie-break: when the lock is free at a tick, it is granted to a waiter
\* with the smallest waitingSince and, among those, to the lowest index; at
\* tick 0 thread 0 executes and every other thread that starts with a CPU phase
\* is BLOCKED.
TieBreak ==
    [][IsTickStep =>
         /\ (LockFree /\ Waiters # {}) =>
                /\ gvlHolder' \in Waiters
                /\ \A j \in Waiters :
                       /\ WaitOf(gvlHolder') <= WaitOf(j)
                       /\ WaitOf(j) = WaitOf(gvlHolder') => gvlHolder' <= j
         /\ currentTime = 0 =>
                \A i \in Waiters :
                    state'[i] = (IF i = 0 THEN StateType.CPU
                                 ELSE StateType.BLOCKED)]_vars

\* thread 1 is granted the lock at tick 20 although thread 2 has been waiting
\* since tick 0 as well
TieBreakWitness ==
    /\ currentTime = 21
    /\ 2 \in DOMAIN state
    /\ GrantedAfterBlocked(1)
    /\ BlockedSinceBeforeGrant(1) = 0
    /\ state[2] = StateType.BLOCKED
    /\ threads[2].waitingSince = 0

\* C23. Work conservation: at every tick some thread is classified EXECUTING
\* exactly if an unfinished thread is on a CPU phase at that tick; no thread is
\* BLOCKED in a tick in which nobody executes, and the lock is free after a
\* tick in which no unfinished thread is on a CPU phase.
WorkConservation ==
    [][IsTickStep =>
         LET executing == {i \in DOMAIN state' : state'[i] = StateType.CPU}
             blocked == {i \in DOMAIN state' : state'[i] = StateType.BLOCKED}
         IN /\ (executing # {}) <=> (Waiters # {})
            /\ executing = {} => blocked = {}
            /\ Waiters = {} => gvlHolder' = NULL]_vars

\* a tick in which two threads are on IO phases and the lock is free
WorkConservationWitness ==
    /\ pc = "loop"
    /\ gvlHolder = NULL
    /\ currentTime > 1
    /\ \E i, j \in DOMAIN state :
           i # j /\ state[i] = StateType.IO /\ state[j] = StateType.IO

\* the thread record is one of an unfinished thread with its index and its
\* executed time inside the phase
ThreadStateOk(thread) ==
    \/ /\ thread.finished
       /\ thread.currentPhaseIndex = Len(thread.profile.phases)
    \/ /\ ~thread.finished
       /\ thread.currentPhaseIndex < Len(thread.profile.phases)
       /\ 0 <= thread.phaseExecutedTime
       /\ thread.phaseExecutedTime < CurrentPhase(thread).duration

\* C24. Thread-state invariant: before and after every tick, every unfinished
\* thread has 0 <= phaseExecutedTime < duration of its current phase and
\* currentPhaseIndex < number of phases; currentPhaseIndex changes only by +1
\* and only in a tick in which phaseExecutedTime reaches the duration of the
\* phase; finished holds exactly when the index equals the number of phases.
ThreadStateInvariant ==
    [][IsTickStep =>
         \A i \in DOMAIN threads :
             /\ ThreadStateOk(threads[i])
             /\ ThreadStateOk(threads'[i])
             /\ threads'[i].currentPhaseIndex # threads[i].currentPhaseIndex =>
                    /\ threads'[i].currentPhaseIndex =
                           threads[i].currentPhaseIndex + 1
                    /\ threads[i].phaseExecutedTime + 1 =
                           CurrentPhase(threads[i]).duration
                    /\ state'[i] # StateType.BLOCKED]_vars

\* a finished thread next to a thread that is in the middle of a later phase
ThreadStateWitness ==
    /\ pc = "loop"
    /\ \E i, j \in DOMAIN threads :
           /\ threads[i].finished
           /\ ~threads[j].finished
           /\ threads[j].currentPhaseIndex >= 2
           /\ threads[j].phaseExecutedTime > 0

\* durations of the IO phases of a profile, in order
IoPhaseDurations(phases) ==
    LET io == SelectSeq(phases, LAMBDA phase : phase.type = "io")
    IN [k \in 1..Len(io) |-> io[k].duration]

\* durations of the IO segments of a timeline, in order
IoSegmentDurations(timeline) ==
    LET io == FilterState(timeline, StateType.IO)
    IN [k \in 1..Len(io) |-> io[k].duration]

\* C25. IO is lock-independent: at every tick every unfinished thread on an IO
\* phase is classified WAITING_IO and advances by exactly one unit, whoever
\* holds the lock; the IO segments of a finished thread have exactly the
\* durations of the IO phases of its profile.
IoLockIndependent ==
    [][IsTickStep =>
         \A i \in DOMAIN threads :
             /\ (~threads[i].finished
                     /\ CurrentPhase(threads[i]).type = "io") =>
                    /\ state'[i] = StateType.IO
                    /\ IF threads[i].phaseExecutedTime + 1 <
                              CurrentPhase(threads[i]).duration
                       THEN /\ threads'[i].phaseExecutedTime =
                                   threads[i].phaseExecutedTime + 1
                            /\ threads'[i].currentPhaseIndex =
                                   threads[i].currentPhaseIndex
                       ELSE /\ threads'[i].phaseExecutedTime = 0
                            /\ threads'[i].currentPhaseIndex =
                                   threads[i].currentPhaseIndex + 1
             /\ threads'[i].finished =>
                    IoSegmentDurations(timelines'[i]) =
                        IoPhaseDurations(threads'[i].profile.phases)]_vars

\* a thread is in the middle of an IO phase while another thread holds the
\* lock and a third one is BLOCKED
IoLockIndependentWitness ==
    \E i, j, k \in DOMAIN state :
        /\ state[i] = StateType.IO
        /\ LastSegment(timelines[i]).duration >= 2
        /\ gvlHolder = j
        /\ state[j] = StateType.CPU
        /\ state[k] = StateType.BLOCKED

\* C26. Segment start times: the startTime of every segment equals the value
\* of the tick counter currentTime at the tick that creates the segment.
SegmentStartTimes ==
    [][IsTickStep =>
         \A i \in DOMAIN timelines :
             Len(timelines'[i]) # Len(timelines[i]) =>
                 /\ Len(timelines'[i]) = Len(timelines[i]) + 1
                 /\ LastSegment(timelines'[i]).startTime = currentTime]_vars

\* a segment that is not the first of its timeline has just been created
\* while another thread is BLOCKED
SegmentStartWitness ==
    \E i, j \in DOMAIN state :
        /\ Len(timelines[i]) >= 3
        /\ LastSegment(timelines[i]).duration = 1
        /\ LastSegment(timelines[i]).startTime = currentTime - 1
        /\ state[j] = StateType.BLOCKED

\* the timeline is a run-length encoding that starts at 0
IsRunLengthEncoding(timeline) ==
    /\ timeline # <<>> => timeline[1].startTime = 0
    /\ \A k \in 1..Len(timeline) : timeline[k].duration >= 1
    /\ \A k \in 2..Len(timeline) :
           /\ timeline[k].startTime =
                  timeline[k - 1].startTime + timeline[k - 1].duration
           /\ timeline[k].state # timeline[k - 1].state

\* C27. Run-length encoding: in every returned timeline the first segment
\* starts at 0, every segment has a duration of at least 1, every segment
\* starts where the previous one ends, and adjacent segments differ in state.
RunLengthEncoding ==
    pc = "done" =>
        \A i \in DOMAIN result.timelines :
            IsRunLengthEncoding(result.timelines[i])

\* a returned timeline with four or more segments, one of them BLOCKED
RunLengthWitnessSegments ==
    /\ pc = "done"
    /\ \E i \in DOMAIN result.timelines :
           /\ Len(result.timelines[i]) >= 4
           /\ \E k \in 1..Len(result.timelines[i]) :
                  result.timelines[i][k].state = StateType.BLOCKED

\* the timeline grew by one tick of state s: its last segment is one longer,
\* or a segment of duration 1 was added, and nothing else changed
GrewByOneTick(before, after, s) ==
    \/ /\ Len(after) = Len(before)
       /\ before # <<>>
       /\ LastSegment(before).state = s
       /\ after = [before EXCEPT ![Len(before)].duration = @ + 1]
    \/ /\ Len(after) = Len(before) + 1
       /\ SubSeq(after, 1, Len(before)) = before
       /\ LastSegment(after).state = s
       /\ LastSegment(after).duration = 1

\* C28. One classification per tick: in every tick the timeline of each
\* unfinished thread grows by exactly one tick of exactly one of the states
\* EXECUTING, WAITING_IO, BLOCKED, and the timeline and the thread record of
\* every thread that was finished at the start of the tick are unchanged.
OneClassificationPerTick ==
    [][IsTickStep =>
         \A i \in DOMAIN threads :
             IF threads[i].finished
             THEN /\ timelines'[i] = timelines[i]
                  /\ threads'[i] = threads[i]
             ELSE /\ state'[i] \in {StateType.CPU, StateType.IO,
                                    StateType.BLOCKED}
                  /\ GrewByOneTick(timelines[i], timelines'[i], state'[i])
                  /\ SumDuration(timelines'[i]) =
                         SumDuration(timelines[i]) + 1]_vars

\* a tick in which one thread is finished, one executes and one is BLOCKED
OneClassificationWitness ==
    /\ pc = "loop"
    /\ \E i, j, k \in DOMAIN threads :
           /\ threads[i].finished
           /\ state[i] = NONE
           /\ state[j] = StateType.CPU
           /\ state[k] = StateType.BLOCKED

\* C29. No impossible transition: in every returned timeline a BLOCKED segment
\* is directly followed by an EXECUTING segment; it is neither followed by a
\* WAITING_IO segment nor the last segment.
BlockedThenExecuting ==
    pc = "done" =>
        \A i \in DOMAIN result.timelines :
            \A k \in 1..Len(result.timelines[i]) :
                result.timelines[i][k].state = StateType.BLOCKED =>
                    /\ k < Len(result.timelines[i])
                    /\ result.timelines[i][k + 1].state = StateType.CPU

\* a returned timeline in which a thread was BLOCKED right after an IO phase
BlockedThenExecutingWitness ==
    /\ pc = "done"
    /\ \E i \in DOMAIN result.timelines :
           \E k \in 2..Len(result.timelines[i]) :
               /\ result.timelines[i][k].state = StateType.BLOCKED
               /\ result.timelines[i][k - 1].state = StateType.IO

\* C30. Wall-clock engine: in the simulateThreads of src/simulation.js the
\* phase of a thread follows the tick counter whatever the thread is
\* classified as: the current phase of every unfinished thread started at the
\* sum of the durations of its earlier phases and contains the last tick, so a
\* thread that is BLOCKED through a CPU phase is on the following IO phase
\* when the time of the CPU phase is over.
WallClockProgress ==
    (pc = "loop" /\ currentTime >= 1) =>
        \A i \in DOMAIN threads :
            ~threads[i].finished =>
                /\ threads[i].phaseStartTime =
                       TotalDuration(SubSeq(threads[i].profile.phases, 1,
                                            threads[i].currentPhaseIndex))
                /\ threads[i].phaseStartTime <= currentTime - 1
                /\ currentTime - 1 < threads[i].phaseStartTime
                                         + CurrentPhase(threads[i]).duration

\* a run of two or more threads returned a timeline in which a 'blocked'
\* segment is directly followed by an 'io' segment
BlockedThenIoWitness ==
    /\ pc = "done"
    /\ ThreadCount >= 2
    /\ \E i \in DOMAIN result :
           \E k \in 1..(Len(result[i]) - 1) :
               /\ result[i][k].state = StateType.BLOCKED
               /\ result[i][k + 1].state = StateType.IO

\* number of ticks of state s a timeline has recorded
RECURSIVE TicksIn(_, _)
TicksIn(timeline, s) ==
    IF timeline = <<>> THEN 0
    ELSE (IF Head(timeline).state = s THEN Head(timeline).duration ELSE 0)
             + TicksIn(Tail(timeline), s)

\* sum of one metric over the threads with index i and above
RECURSIVE MetricSum(_, _, _)
MetricSum(perThread, field, i) ==
    IF i \notin DOMAIN perThread THEN 0
    ELSE perThread[i][field] + MetricSum(perThread, field, i + 1)

\* every tick adds one to the recorded ticks of the state the thread is
\* classified in at that tick, and to no other
TickDerivation ==
    IsTickStep =>
        \A i \in DOMAIN threads :
            \A s \in {StateType.BLOCKED, StateType.CPU, StateType.IO} :
                TicksIn(timelines'[i], s) =
                    TicksIn(timelines[i], s) + (IF state'[i] = s THEN 1 ELSE 0)

\* the metrics a call returns are derived from the returned timelines
ReturnDerivation ==
    (pc # "done" /\ pc' = "done") =>
        LET perThread == result'.metrics.perThread
            agg == result'.metrics.aggregate
        IN /\ DOMAIN perThread = DOMAIN result'.timelines
           /\ \A i \in DOMAIN perThread :
                  /\ perThread[i].blocked =
                         TicksIn(result'.timelines[i], StateType.BLOCKED)
                  /\ perThread[i].cpu =
                         TicksIn(result'.timelines[i], StateType.CPU)
                  /\ perThread[i].io =
                         TicksIn(result'.timelines[i], StateType.IO)
           /\ {"totalBlocked", "totalActive", "totalTime"} \subseteq DOMAIN agg
           /\ agg.totalBlocked = MetricSum(perThread, "blocked", 0)
           /\ agg.totalActive = MetricSum(perThread, "active", 0)
           /\ agg.totalTime = MetricSum(perThread, "total", 0)

\* C31. Metrics derivation: for every run, the blocked, cpu and io metrics of
\* each thread are the numbers of ticks at which the thread was classified
\* BLOCKED, EXECUTING and WAITING_IO, and the aggregate totalBlocked,
\* totalActive and totalTime are the sums over the threads of blocked, active
\* and total.
MetricsDerivation == [][TickDerivation /\ ReturnDerivation]_vars

\* C32. Non-preemption: a thread that holds the lock and is still on a CPU
\* phase is the holder of the next tick and is classified EXECUTING in it; the
\* holder changes only in a tick at whose start the previous holder is
\* finished or on an IO phase; no EXECUTING segment is directly followed by a
\* BLOCKED segment.
NonPreemption ==
    [][IsTickStep =>
           /\ \A i \in DOMAIN threads :
                  (gvlHolder = i /\ ~threads[i].finished
                       /\ CurrentPhase(threads[i]).type = "cpu") =>
                      (gvlHolder' = i /\ state'[i] = StateType.CPU)
           /\ (gvlHolder # NULL /\ gvlHolder' # gvlHolder) =>
                  \/ threads[gvlHolder].finished
                  \/ CurrentPhase(threads[gvlHolder]).type = "io"
           /\ \A i \in DOMAIN timelines' :
                  \A k \in 1..(Len(timelines'[i]) - 1) :
                      timelines'[i][k].state = StateType.CPU =>
                          timelines'[i][k + 1].state # StateType.BLOCKED]_vars

\* thread 1 is in the middle of a CPU phase and keeps the lock although
\* thread 0, which held the lock before it, is back from IO and waits
NonPreemptionWitness ==
    /\ pc = "loop"
    /\ ThreadCount >= 2
    /\ gvlHolder = 1
    /\ threads[1].phaseExecutedTime > 0
    /\ state[0] = StateType.BLOCKED
    /\ threads[0].currentPhaseIndex > 0

\* C33. Lock-holder validity: at the recording point of every tick gvlHolder
\* is null or the index of an unfinished thread whose current phase is CPU,
\* and that thread's waitingSince is null.
HolderValidity ==
    [][IsTickStep =>
           \/ gvlHolder' = NULL
           \/ /\ gvlHolder' \in DOMAIN threads
              /\ ~threads[gvlHolder'].finished
              /\ CurrentPhase(threads[gvlHolder']).type = "cpu"
              /\ state'[gvlHolder'] = StateType.CPU
              /\ threads'[gvlHolder'].waitingSince = NULL]_vars

\* a thread that was stamped as a waiter in an earlier tick holds the lock
\* while another thread still carries its stamp
HolderValidityWitness ==
    /\ pc = "loop"
    /\ ThreadCount = 3
    /\ gvlHolder = 2
    /\ threads[2].waitingSince = NULL
    /\ \E i \in DOMAIN threads : threads[i].waitingSince # NULL

\* sum of the CPU-phase durations of the profile of one key
CpuDemand(key) == PhaseSumOfType(REQUEST_PROFILES[key].phases, "cpu")

\* sum of the CPU-phase durations of the threads k..ThreadCount except one
RECURSIVE CpuDemandOfOthers(_, _)
CpuDemandOfOthers(k, except) ==
    IF k > ThreadCount THEN 0
    ELSE (IF k = except THEN 0 ELSE CpuDemand(ConfigKeys[k]))
             + CpuDemandOfOthers(k + 1, except)

\* C34. Blocked-time bound: the ticks a thread has been BLOCKED never exceed
\* the sum of the CPU-phase durations of all other threads, and its total in
\* the returned metrics is at most its own phase-duration sum plus that sum.
BlockedTimeBound ==
    (pc \in {"loop", "done"} /\ ValidInput) =>
        \A i \in DOMAIN timelines :
            /\ TicksIn(timelines[i], StateType.BLOCKED)
                   <= CpuDemandOfOthers(1, i + 1)
            /\ pc = "done" =>
                   /\ result.metrics.perThread[i].blocked
                          <= CpuDemandOfOthers(1, i + 1)
                   /\ result.metrics.perThread[i].total
                          <= Demand(ConfigKeys[i + 1])
                                 + CpuDemandOfOthers(1, i + 1)

\* a returned run of three threads in which the last one was blocked for
\* longer than the CPU demand of any single other thread
BlockedTimeBoundWitness ==
    /\ pc = "done"
    /\ ValidInput
    /\ ThreadCount = 3
    /\ \A k \in 1..2 :
           result.metrics.perThread[2].blocked > CpuDemand(ConfigKeys[k])

\* C35. Serialisation lower bound: the number of ticks of a run is at least
\* the sum of the CPU-phase durations of all its threads.
SerialisationLowerBound ==
    (pc = "done" /\ ValidInput) => currentTime >= CpuDemandOfOthers(1, 0)

\* a returned run of several threads that took fewer ticks than the sum of
\* all phase durations, IO of one thread overlapping CPU of another
SerialisationWitness ==
    /\ pc = "done"
    /\ ValidInput
    /\ ThreadCount >= 2
    /\ currentTime < TotalDemand(ConfigKeys)
    /\ currentTime < CpuDemandOfOthers(1, 0) + 30

\* C36. Exact two-thread schedule: simulateThreads(['low-io', 'heavy-io'])
\* returns blocked 0 and total 120 for thread 0; a first segment BLOCKED from
\* 0 for 20 ticks, blocked 20, cpu 60, io 500 and total 580 for thread 1;
\* totalBlocked 20, totalActive 680 and totalTime 700.
ExactTwoThreadSchedule ==
    (pc = "done" /\ CalledWith(<<"low-io", "heavy-io">>)) =>
        LET perThread == result.metrics.perThread
            agg == result.metrics.aggregate
        IN /\ perThread[0].blocked = 0
           /\ perThread[0].total = 120
           /\ result.timelines[1][1] =
                  [state |-> StateType.BLOCKED, startTime |-> 0,
                   duration |-> 20]
           /\ perThread[1].blocked = 20
           /\ perThread[1].cpu = 60
           /\ perThread[1].io = 500
           /\ perThread[1].total = 580
           /\ agg.totalBlocked = 20
           /\ agg.totalActive = 680
           /\ agg.totalTime = 700

\* the call with ['low-io', 'heavy-io'] has returned after 580 ticks
ExactTwoThreadWitness ==
    /\ pc = "done"
    /\ CalledWith(<<"low-io", "heavy-io">>)
    /\ currentTime = 580
    /\ Len(result.timelines[1]) = 4

\* C37. Version equivalence: for every array of valid catalog keys, the empty
\* array included, the timelines the simulateThreads of src/docs/simulation.js
\* returns are, segment by segment, the 'timelines' field the simulateThreads
\* of part_000 returned for the same argument.
VersionEquivalence ==
    (pc = "docsDone" /\ (CalledWith(<<>>) \/ ValidInput)) =>
        /\ firstOutcome.error = NoError
        /\ DOMAIN result = DOMAIN firstOutcome.result.timelines
        /\ \A i \in DOMAIN result :
               /\ Len(result[i]) = Len(firstOutcome.result.timelines[i])
               /\ \A k \in 1..Len(result[i]) :
                      result[i][k] = firstOutcome.result.timelines[i][k]

\* both versions have returned for three threads, one of which was blocked
\* in several segments
VersionEquivalenceWitness ==
    /\ pc = "docsDone"
    /\ ValidInput
    /\ ThreadCount = 3
    /\ \E i \in DOMAIN result :
           Len(SelectSeq(result[i],
                         LAMBDA seg : seg.state = DocsStateType.BLOCKED)) >= 2

====
